---- MODULE Spec2Model ----
(***************************************************************************)
(* Connection lifecycle of the KAYA-MD WhatsApp session manager.           *)
(*                                                                         *)
(* The repository holds two builds of the same program:                    *)
(*   src/index.js          startSocket, useMultiFileAuthState (a folder,   *)
(*                         loaded again by every call of startSocket)      *)
(*   src/unnamed/part_000  startSock, useSingleFileAuthState (one file,    *)
(*                         loaded once when the module is loaded)          *)
(* The variable `program` selects the build; it never changes.             *)
(*                                                                         *)
(* The Baileys socket, the file system, the QR encoder, the timers and the  *)
(* HTTP clients are the environment: every event, every request, every     *)
(* settlement of a promise and every failure is an input of an action.     *)
(***************************************************************************)
EXTENDS Integers, Sequences, FiniteSets, Bags, TLC

VARIABLES
    program,              \* "index_js" | "part_000"
    mainPc,               \* the process: "boot" before the IIFE has called the
                          \* start routine, "running" after, "crashed" once an
                          \* error nothing catches has ended it
    connectionStatus,     \* let connectionStatus
    latestQRCodeDataUrl,  \* let latestQRCodeDataUrl (<<>> models null)
    qrLastUpdated,        \* let qrLastUpdated (<<>> models null)
    authStore,            \* AUTH_DIR / AUTH_FILE on disk
    state,                \* part_000: the module-level const { state }
    attempts,             \* one record per call of startSocket / startSock
    timers,               \* pending setTimeout callbacks (a bag)
    pending,              \* connection.update handlers suspended in await toDataURL
    now,                  \* number of events delivered so far (the clock)
    qrCount,              \* number of pairing challenges issued so far
    hist,                 \* history of pairing / open events (observation only)
    last                  \* label of the step just taken (observation only)

vars == << program, mainPc, connectionStatus, latestQRCodeDataUrl, qrLastUpdated,
           authStore, state, attempts, timers, pending, now, qrCount,
           hist, last >>

----------------------------------------------------------------------------
(* Bounds of the model *)

MaxStarts == 2     \* calls of the start routine in one behaviour
MaxEvents == 2     \* events delivered: connection.update, creds.update and
                   \* HTTP requests

----------------------------------------------------------------------------
(* Program constants *)

\* DisconnectReason.* as compared in the connection.update handler
badSession == 500
loggedOut == 401
restartRequired == 515
connectionClosed == 428
\* a reason code the handler does not name (DisconnectReason.timedOut)
timedOut == 408

ShortDelay == 2000
LongDelay == 5000

\* let version = [2, 2204, 13]
FallbackVersion == << 2, 2204, 13 >>

Null == << >>

----------------------------------------------------------------------------
(* The credential store on disk *)

AbsentStore == [exists |-> FALSE, hasCreds |-> FALSE, creds |-> 0]
EmptyStore == [exists |-> TRUE, hasCreds |-> FALSE, creds |-> 0]
StoreWith(c) == [exists |-> TRUE, hasCreds |-> TRUE, creds |-> c]

\* initAuthCreds(): credentials of no paired session
FreshCreds == 0
\* credentials of a paired session
PairedCreds == { 1 }

\* what loading the store yields: the saved credentials, or fresh ones
LoadCreds(store) == IF store.hasCreds THEN store.creds ELSE FreshCreds

----------------------------------------------------------------------------
(* Inputs: what the environment can hand to the program *)

\* result of fetchLatestBaileysVersion(): the promise resolves with a value
\* (truthy or not, with or without a version array), rejects, or never settles
FetchedVersions == { << 2, 3000, 7 >> }
FetchResults ==
    { [settled |-> "resolved", truthy |-> TRUE, isArray |-> TRUE, version |-> v] :
        v \in FetchedVersions }
    \cup { [settled |-> "resolved", truthy |-> TRUE, isArray |-> FALSE,
            version |-> << 2, 3000, 7 >>],
           [settled |-> "resolved", truthy |-> FALSE, isArray |-> FALSE,
            version |-> << >>],
           [settled |-> "rejected", truthy |-> FALSE, isArray |-> FALSE,
            version |-> << >>] }
NotFetched == [settled |-> "pending", truthy |-> FALSE, isArray |-> FALSE,
               version |-> << >>]

\* update.connection: "" models an update without the field
Connections == { "", "open", "close" }

\* update.lastDisconnect: output / status are error.output.statusCode and
\* error.statusCode, 0 modelling an absent (undefined) field
NoDisconnect == [present |-> FALSE, hasError |-> FALSE, output |-> 0, status |-> 0]
ErrorCodes == { << badSession, 0 >>, << loggedOut, 0 >>, << restartRequired, 0 >>,
                << connectionClosed, 0 >>, << timedOut, 0 >>, << 0, loggedOut >>,
                << 0, 0 >> }
Disconnects ==
    { NoDisconnect,
      [present |-> TRUE, hasError |-> FALSE, output |-> 0, status |-> 0] }
    \cup { [present |-> TRUE, hasError |-> TRUE, output |-> e[1], status |-> e[2]] :
            e \in ErrorCodes }

Disconnect(output) ==
    [present |-> TRUE, hasError |-> TRUE, output |-> output, status |-> 0]

\* update.qr: 0 models an update without the field, q > 0 the q-th challenge.
\* An update that carries a challenge is tried alone, with 'open', and with a
\* 'close' and a disconnect of the first or the last branch of the handler.
Updates(q) ==
    [qr : {0}, connection : Connections, lastDisconnect : Disconnects]
    \cup { [qr |-> q, connection |-> "", lastDisconnect |-> NoDisconnect],
           [qr |-> q, connection |-> "open", lastDisconnect |-> NoDisconnect],
           [qr |-> q, connection |-> "close", lastDisconnect |-> Disconnect(badSession)],
           [qr |-> q, connection |-> "close", lastDisconnect |-> Disconnect(timedOut)] }

----------------------------------------------------------------------------
(* Pure parts of the code *)

\* mutant of ResolveVersion: the Array.isArray test is dropped
ResolveVersionUnchecked(f) ==
    IF f.settled = "resolved" /\ f.truthy THEN f.version ELSE FallbackVersion

\* if (fetched && Array.isArray(fetched.version)) version = fetched.version
ResolveVersion(f) ==
    IF f.settled = "resolved" /\ f.truthy /\ f.isArray THEN f.version
    ELSE FallbackVersion

\* QRCode.toDataURL(qr): the challenge wrapped as an image data URL
DataUrl(q) == << "data:image/png;base64", q >>

\* new Date().toISOString()
ISO(t) == << "iso", t >>

\* lastDisconnect && lastDisconnect.error
HasError(u) == u.lastDisconnect.present /\ u.lastDisconnect.hasError

\* error?.output?.statusCode || error?.statusCode
StatusCode(ld) == IF ld.output # 0 THEN ld.output ELSE ld.status

\* mutant of Classify: the else-if tests restartRequired only
ClassifyWithoutConnectionClosed(code) ==
    IF code = badSession \/ code = loggedOut THEN "reinit"
    ELSE IF code = restartRequired THEN "restart"
    ELSE "retry"

\* the branch of the if / else if / else chain on the code
Classify(code) ==
    IF code = badSession \/ code = loggedOut THEN "reinit"
    ELSE IF code = restartRequired \/ code = connectionClosed THEN "restart"
    ELSE "retry"

\* mutant of DelayOf: every branch uses the short delay
DelayAlwaysShort(branch) == ShortDelay

\* the delay each branch hands to setTimeout
DelayOf(branch) == IF branch = "retry" THEN LongDelay ELSE ShortDelay

\* whether the deletion call is made at all: index.js guards rmSync with
\* existsSync, part_000 calls unlinkSync unconditionally
RmCalled(store) == IF program = "index_js" THEN store.exists ELSE TRUE

\* whether the deletion call throws (caught by the inner try / catch):
\* unlinkSync of a missing file throws; either call can fail on a present store
RmThrew(store, rmFails) == RmCalled(store) /\ (rmFails \/ ~store.exists)

\* whether the handler of update u reaches the deletion call with a store on
\* which the call can fail
CanFail(u, store) ==
    HasError(u) /\ Classify(StatusCode(u.lastDisconnect)) = "reinit" /\ store.exists

\* mutant of DeleteAuth: the deletion call is left out
DeleteAuthSkipped(store, rmFails) == store

\* the store after the deletion block
DeleteAuth(store, rmFails) ==
    IF RmCalled(store) /\ ~RmThrew(store, rmFails) THEN AbsentStore ELSE store

\* the values shared by all handlers, threaded through one handler run
Shared == [connectionStatus |-> connectionStatus,
           latestQRCodeDataUrl |-> latestQRCodeDataUrl,
           qrLastUpdated |-> qrLastUpdated,
           authStore |-> authStore,
           timers |-> timers]

\* setTimeout(() => startSocket(), delay); `wiped` records that the step
\* scheduling it has deleted the credential store
Schedule(sh, delay, wiped) ==
    [sh EXCEPT !.timers = @ (+) SetToBag({ [delay |-> delay, wiped |-> wiped] })]

\* body of the try after a successful await QRCode.toDataURL(qr)
QrPart(sh, q, t) ==
    [sh EXCEPT !.latestQRCodeDataUrl = DataUrl(q),
               !.qrLastUpdated = ISO(t),
               !.connectionStatus = "qr-generated"]

\* mutant of QrTry: the catch resets the snapshot
QrTryClearsOnFailure(sh, q, t, ok) ==
    IF ok THEN QrPart(sh, q, t)
    ELSE [sh EXCEPT !.latestQRCodeDataUrl = Null, !.qrLastUpdated = Null]

\* try { latestQRCodeDataUrl = await QRCode.toDataURL(qr); ... } catch (qErr)
\* { log }: a rejected encoding assigns nothing
QrTry(sh, q, t, ok) == IF ok THEN QrPart(sh, q, t) ELSE sh

\* mutant of ConnectionPart: 'open' leaves the snapshot in place
ConnectionPartKeepsQr(sh, u, t) ==
    IF u.connection = "" THEN sh
    ELSE IF u.connection = "open"
         THEN [sh EXCEPT !.connectionStatus = u.connection,
                         !.qrLastUpdated = ISO(t)]
         ELSE [sh EXCEPT !.connectionStatus = u.connection]

\* if (connection) { ... }
ConnectionPart(sh, u, t) ==
    IF u.connection = "" THEN sh
    ELSE IF u.connection = "open"
         THEN [sh EXCEPT !.connectionStatus = u.connection,
                         !.latestQRCodeDataUrl = Null,
                         !.qrLastUpdated = ISO(t)]
         ELSE [sh EXCEPT !.connectionStatus = u.connection]

\* mutant of DisconnectPart: the deletion call has no try / catch of its own,
\* so a throw leaves the handler through its outer catch before setTimeout
DisconnectPartAbortsOnThrow(sh, u, rmFails) ==
    IF ~HasError(u) THEN sh
    ELSE LET branch == Classify(StatusCode(u.lastDisconnect))
             store == IF branch = "reinit" THEN DeleteAuth(sh.authStore, rmFails)
                      ELSE sh.authStore
         IN  IF branch = "reinit" /\ RmThrew(sh.authStore, rmFails) THEN sh
             ELSE Schedule([sh EXCEPT !.authStore = store], DelayOf(branch),
                           branch = "reinit" /\ sh.authStore.exists /\ ~store.exists)

\* mutant of DisconnectPart: with nothing to delete the branch returns at once
DisconnectPartSkipsWhenAbsent(sh, u, rmFails) ==
    IF ~HasError(u) THEN sh
    ELSE LET branch == Classify(StatusCode(u.lastDisconnect))
             store == IF branch = "reinit" THEN DeleteAuth(sh.authStore, rmFails)
                      ELSE sh.authStore
         IN  IF branch = "reinit" /\ ~sh.authStore.exists THEN sh
             ELSE Schedule([sh EXCEPT !.authStore = store], DelayOf(branch),
                           branch = "reinit" /\ sh.authStore.exists /\ ~store.exists)

\* if (lastDisconnect && lastDisconnect.error) { ... }
DisconnectPart(sh, u, rmFails) ==
    IF ~HasError(u) THEN sh
    ELSE LET branch == Classify(StatusCode(u.lastDisconnect))
             store == IF branch = "reinit" THEN DeleteAuth(sh.authStore, rmFails)
                      ELSE sh.authStore
         IN  Schedule([sh EXCEPT !.authStore = store], DelayOf(branch),
                      branch = "reinit" /\ sh.authStore.exists /\ ~store.exists)

\* the handler from `if (connection)` to its end
RestOfHandler(sh, u, t, rmFails) ==
    DisconnectPart(ConnectionPart(sh, u, t), u, rmFails)

----------------------------------------------------------------------------
(* State of one call of the start routine *)

\* pc: "fetching"  awaiting fetchLatestBaileysVersion()
\*     "hung"      the same await, on a lookup that will never settle
\*     "loading"   awaiting useMultiFileAuthState(AUTH_DIR)       (index.js)
\*     "loaded"    that promise resolved, continuation not yet run (index.js)
\*     "subscribed" socket made, the three handlers registered, sock returned
\*     "failed"    the outer catch ran
\* version: let version; creds: the credentials in the state object of this
\* call (index.js: const { state, saveCreds } = await useMultiFileAuthState);
\* afterWipe: the call was made by a timer scheduled by a step that deleted
\* the credential store, and has not opened its socket yet
NewAttempt(afterWipe) ==
    [pc |-> "fetching", version |-> FallbackVersion, creds |-> FreshCreds,
     afterWipe |-> afterWipe]

\* a call that has returned (or will never resume): its locals are read no more
Returned(pc) == [NewAttempt(FALSE) EXCEPT !.pc = pc]

\* the credentials `auth: state` hands to the socket of call a
AuthOf(a) == IF program = "part_000" THEN state ELSE a.creds

Subscribed == { i \in 1 .. Len(attempts) : attempts[i].pc = "subscribed" }

\* restarts already owed by suspended handlers
Owed == Cardinality({ h \in pending : HasError(h) })

\* the environment may cause one more restart only while the model has room
\* for the call of the start routine that restart leads to
CanSchedule == Len(attempts) + BagCardinality(timers) + Owed < MaxStarts

\* label of a step: the operation, the update.connection a handler step was
\* given, whether an 'open' found a snapshot to clear when the step began,
\* whether it ran the disconnect branches and on which code, whether
\* the deletion call threw, the lookup result it consumed, and
\* for a socket being opened whether the call came after a wipe and the
\* credentials and version makeWASocket was given, and for an HTTP request the
\* response sent
NoLabel == [op |-> "init", conn |-> "", cleared |-> FALSE, err |-> FALSE, code |-> 0,
            rmThrew |-> FALSE, fetched |-> NotFetched, afterWipe |-> FALSE,
            auth |-> FreshCreds, version |-> FallbackVersion, resp |-> << >>]
Label(op) == [NoLabel EXCEPT !.op = op]

\* label of a step that ran the handler's disconnect part on update u
HandlerLabel(op, u, rmFails) ==
    IF HasError(u)
    THEN [NoLabel EXCEPT
             !.op = op, !.conn = u.connection,
             !.cleared = u.connection = "open" /\ latestQRCodeDataUrl # Null,
             !.err = TRUE, !.code = StatusCode(u.lastDisconnect),
             !.rmThrew = Classify(StatusCode(u.lastDisconnect)) = "reinit"
                         /\ RmThrew(authStore, rmFails)]
    ELSE [Label(op) EXCEPT
             !.conn = u.connection,
             !.cleared = u.connection = "open" /\ latestQRCodeDataUrl # Null]

\* the status the handler of update u sets when it runs alone: the reported
\* connection state, else 'qr-generated' for challenge u.qr, else none
NoExpectation == [status |-> "", qr |-> 0]
Expectation(u, was) ==
    IF u.connection # "" THEN [status |-> u.connection, qr |-> 0]
    ELSE IF u.qr # 0 THEN [status |-> "qr-generated", qr |-> u.qr]
    ELSE was

\* write a Shared record back to the variables
Assign(sh) ==
    /\ connectionStatus' = sh.connectionStatus
    /\ latestQRCodeDataUrl' = sh.latestQRCodeDataUrl
    /\ qrLastUpdated' = sh.qrLastUpdated
    /\ authStore' = sh.authStore
    /\ timers' = sh.timers

----------------------------------------------------------------------------
(* Initial state: the module is loaded, the IIFE has not yet called start *)

Init ==
    /\ program \in { "index_js", "part_000" }
    /\ mainPc = "boot"
    /\ connectionStatus = "starting"
    /\ latestQRCodeDataUrl = Null
    /\ qrLastUpdated = Null
    /\ authStore \in { AbsentStore } \cup { StoreWith(c) : c \in PairedCreds }
    \* part_000: const { state, saveState } = useSingleFileAuthState(AUTH_FILE)
    /\ state = IF program = "part_000" THEN LoadCreds(authStore) ELSE FreshCreds
    /\ attempts = << >>
    /\ timers = EmptyBag
    /\ pending = { }
    /\ now = 0
    /\ qrCount = 0
    /\ hist = [issued |-> 0, openSeen |-> FALSE, openMark |-> 0,
               expect |-> NoExpectation]
    /\ last = NoLabel

----------------------------------------------------------------------------
(* The start routine *)

\* entry of startSocket / startSock up to the first await
Enter(afterWipe) ==
    /\ connectionStatus' = "fetching-baileys-version"
    /\ attempts' = Append(attempts, NewAttempt(afterWipe))

\* mutant of StartCatch: the catch retries with the short delay
StartCatchShort(sh) == Schedule(sh, ShortDelay, FALSE)

\* catch (err) of the start routine
StartCatch(sh) == Schedule(sh, LongDelay, FALSE)

\* connectionStatus = 'starting-socket'; makeWASocket({ auth: state, version });
\* handlers registered; or makeWASocket throws and the outer catch runs
OpenSocket(i, a, f, throws) ==
    LET sh == [Shared EXCEPT !.connectionStatus = "starting-socket"]
    IN  IF throws
        THEN /\ Assign(StartCatch(sh))
             /\ attempts' = [attempts EXCEPT ![i] = Returned("failed")]
             /\ last' = [Label("startFailed") EXCEPT !.fetched = f]
        ELSE /\ Assign(sh)
             /\ attempts' = [attempts EXCEPT ![i] = Returned("subscribed")]
             /\ last' = [Label("opened") EXCEPT
                            !.fetched = f, !.afterWipe = a.afterWipe,
                            !.auth = AuthOf(a), !.version = a.version]

\* (async () => { app.listen(...); await startSocket(); })()
Main ==
    /\ mainPc = "boot"
    /\ mainPc' = "running"
    /\ Enter(FALSE)
    /\ last' = Label("main")
    /\ UNCHANGED << program, latestQRCodeDataUrl, qrLastUpdated, authStore,
                    state, timers, pending, now, qrCount, hist >>

\* a pending setTimeout(() => startSocket(), delay) fires
TimerFires(t) ==
    /\ mainPc = "running"
    /\ Len(attempts) < MaxStarts
    /\ timers' = timers (-) SetToBag({ t })
    /\ Enter(t.wiped)
    /\ last' = Label("timer")
    /\ UNCHANGED << program, mainPc, latestQRCodeDataUrl, qrLastUpdated, authStore,
                    state, pending, now, qrCount, hist >>

\* await fetchLatestBaileysVersion() settles with f; index.js goes on to await
\* useMultiFileAuthState, part_000 goes straight on to open the socket with
\* the module-level state
FetchSettles(i, f, throws) ==
    /\ mainPc = "running"
    /\ attempts[i].pc = "fetching"
    /\ throws => CanSchedule
    /\ LET a == [attempts[i] EXCEPT !.version = ResolveVersion(f)]
       IN  IF program = "index_js"
           THEN /\ ~throws
                /\ attempts' = [attempts EXCEPT ![i] = [a EXCEPT !.pc = "loading"]]
                /\ last' = [Label("fetched") EXCEPT !.fetched = f]
                /\ UNCHANGED << connectionStatus, latestQRCodeDataUrl,
                                qrLastUpdated, authStore, timers >>
           ELSE OpenSocket(i, a, f, throws)
    /\ UNCHANGED << program, mainPc, state, pending, now, qrCount, hist >>

\* the remote lookup never answers: the await never resumes
FetchNeverSettles(i) ==
    /\ mainPc = "running"
    /\ attempts[i].pc = "fetching"
    /\ attempts' = [attempts EXCEPT ![i] = Returned("hung")]
    /\ last' = Label("hung")
    /\ UNCHANGED << program, mainPc, connectionStatus, latestQRCodeDataUrl,
                    qrLastUpdated, authStore, state, timers, pending, now,
                    qrCount, hist >>

\* index.js: useMultiFileAuthState(AUTH_DIR) creates the folder when missing,
\* reads the credentials in it (fresh ones when there are none) into a new
\* state object and resolves; or it rejects and the outer catch runs
AuthLoads(i, rejects) ==
    /\ mainPc = "running"
    /\ program = "index_js"
    /\ attempts[i].pc = "loading"
    /\ rejects => CanSchedule
    /\ IF rejects
       THEN /\ Assign(StartCatch(Shared))
            /\ attempts' = [attempts EXCEPT ![i] = Returned("failed")]
            /\ last' = Label("startFailed")
       ELSE /\ authStore' = IF authStore.exists THEN authStore ELSE EmptyStore
            /\ attempts' = [attempts EXCEPT ![i].pc = "loaded",
                                            ![i].creds = LoadCreds(authStore)]
            /\ last' = Label("authLoaded")
            /\ UNCHANGED << connectionStatus, latestQRCodeDataUrl, qrLastUpdated,
                            timers >>
    /\ UNCHANGED << program, mainPc, state, pending, now, qrCount, hist >>

\* index.js: the continuation after await useMultiFileAuthState
SocketOpens(i, throws) ==
    /\ mainPc = "running"
    /\ program = "index_js"
    /\ attempts[i].pc = "loaded"
    /\ throws => CanSchedule
    /\ OpenSocket(i, attempts[i], NotFetched, throws)
    /\ UNCHANGED << program, mainPc, state, pending, now, qrCount, hist >>

----------------------------------------------------------------------------
(* The connection.update handler *)

\* history kept when update u arrives: hist.issued is the most recent
\* challenge issued with no 'open' event since (0: none), and is forgotten
\* when the encoding of that very challenge fails; hist.expect is the
\* Expectation of the most recently arrived update that has one, and is
\* forgotten likewise
Arrived(h, u) ==
    [h EXCEPT !.issued = IF u.connection = "open" THEN 0
                         ELSE IF u.qr # 0 THEN u.qr ELSE @,
              !.expect = Expectation(u, @)]

\* history kept when the encoding of the challenge of update u has failed
EncodingFailed(h, u) ==
    [h EXCEPT !.issued = IF @ = u.qr THEN 0 ELSE @,
              !.expect = IF @.qr = u.qr THEN NoExpectation ELSE @]

\* history kept when the `if (connection)` part of update u has run: how many
\* challenges had been issued when the latest 'open' was handled
Handled(h, u, issuedSoFar) ==
    IF u.connection = "open"
    THEN [h EXCEPT !.openSeen = TRUE, !.openMark = issuedSoFar]
    ELSE h

\* sock.ev.on('connection.update', async (update) => { ... }) is called with u
\* by some socket whose handlers are registered (the handler reads nothing of
\* its own socket, so which one emits makes no difference).
\* With a qr the handler suspends in await QRCode.toDataURL(qr); without one
\* it runs to its end in this step.
ConnectionUpdate(u, rmFails) ==
    /\ mainPc = "running"
    /\ Subscribed # { }
    /\ now < MaxEvents
    /\ HasError(u) => CanSchedule
    /\ rmFails => u.qr = 0 /\ CanFail(u, authStore)
    /\ now' = now + 1
    /\ IF u.qr # 0
       THEN /\ ~rmFails
            /\ qrCount' = qrCount + 1
            /\ pending' = pending \cup { u }
            /\ hist' = Arrived(hist, u)
            /\ last' = Label("suspended")
            /\ UNCHANGED << connectionStatus, latestQRCodeDataUrl, qrLastUpdated,
                            authStore, timers >>
       ELSE /\ Assign(RestOfHandler(Shared, u, now', rmFails))
            /\ hist' = Handled(Arrived(hist, u), u, qrCount)
            /\ last' = HandlerLabel("update", u, rmFails)
            /\ UNCHANGED << qrCount, pending >>
    /\ UNCHANGED << program, mainPc, state, attempts >>

\* await QRCode.toDataURL(qr) settles for the handler suspended on update h: the try
\* body stores the snapshot (ok), or the catch logs (not ok); the rest of the
\* handler then runs in the same step
QrSettles(h, ok, rmFails) ==
    /\ mainPc = "running"
    /\ h \in pending
    /\ rmFails => CanFail(h, authStore)
    /\ pending' = pending \ { h }
    /\ Assign(RestOfHandler(QrTry(Shared, h.qr, now, ok), h, now, rmFails))
    /\ hist' = Handled(IF ok THEN hist ELSE EncodingFailed(hist, h), h, qrCount)
    /\ last' = HandlerLabel(IF ok THEN "qrStored" ELSE "qrFailed", h, rmFails)
    /\ UNCHANGED << program, mainPc, state, attempts, now, qrCount >>

----------------------------------------------------------------------------
(* The creds.update handler *)

\* some registered socket has put credentials c into its state object and
\* emits creds.update: saveCreds (index.js) writes into AUTH_DIR, which must
\* exist; saveState (part_000) writes AUTH_FILE, creating it when missing.
\* The state object of an index.js call is read by its own socket only; the
\* module-level state of part_000 is handed to every later socket.
WriteFailed(store, writeFails) ==
    writeFails \/ (program = "index_js" /\ ~store.exists)

SaveCreds(store, c, writeFails) ==
    IF WriteFailed(store, writeFails) THEN store ELSE StoreWith(c)

\* saveCreds / saveState is registered as the listener itself, with no
\* try / catch and no .catch around it: a failed write leaves the listener as
\* a rejected promise (index.js) or a thrown error (part_000) that no code of
\* the program handles. What becomes of it is up to the emitter and the
\* runtime: it is dropped with a warning, or it ends the process.
PersistFailure(fatal) == IF fatal THEN "crashed" ELSE "running"

CredsUpdate(c, writeFails, fatal) ==
    /\ mainPc = "running"
    /\ Subscribed # { }
    /\ now < MaxEvents
    /\ fatal => WriteFailed(authStore, writeFails)
    /\ now' = now + 1
    /\ state' = IF program = "part_000" THEN c ELSE state
    /\ authStore' = SaveCreds(authStore, c, writeFails)
    /\ mainPc' = IF WriteFailed(authStore, writeFails) THEN PersistFailure(fatal)
                 ELSE mainPc
    /\ last' = Label(IF WriteFailed(authStore, writeFails) THEN "credsNotSaved"
                     ELSE "credsSaved")
    /\ UNCHANGED << program, connectionStatus, latestQRCodeDataUrl,
                    qrLastUpdated, attempts, timers, pending, qrCount, hist >>

----------------------------------------------------------------------------
(* The HTTP surface *)

\* mutant of RootPage: the test on the snapshot is inverted
RootPageInverted(sh) ==
    IF sh.latestQRCodeDataUrl # Null
    THEN << "waiting", sh.connectionStatus >>
    ELSE << "qr", sh.connectionStatus, sh.qrLastUpdated, sh.latestQRCodeDataUrl >>

\* app.get('/'): the waiting page (status only) when !latestQRCodeDataUrl,
\* else the page with the status, the timestamp and the image
RootPage(sh) ==
    IF sh.latestQRCodeDataUrl = Null
    THEN << "waiting", sh.connectionStatus >>
    ELSE << "qr", sh.connectionStatus, sh.qrLastUpdated, sh.latestQRCodeDataUrl >>

\* app.get('/health'): res.json({ status: connectionStatus, qrLastUpdated })
Health(sh) == << "health", sh.connectionStatus, sh.qrLastUpdated >>

\* a request is served by a synchronous handler, in one step, once app.listen
\* has been called
Get(op, resp) ==
    /\ mainPc = "running"
    /\ now < MaxEvents
    /\ now' = now + 1
    /\ last' = [Label(op) EXCEPT !.resp = resp]
    /\ UNCHANGED << program, mainPc, connectionStatus, latestQRCodeDataUrl,
                    qrLastUpdated, authStore, state, attempts, timers, pending,
                    qrCount, hist >>

GetRoot == Get("getRoot", RootPage(Shared))

GetHealth == Get("getHealth", Health(Shared))

----------------------------------------------------------------------------
(* Specification *)

Next ==
    \/ Main
    \/ \E t \in BagToSet(timers) : TimerFires(t)
    \/ \E i \in 1 .. Len(attempts), f \in FetchResults, throws \in BOOLEAN :
          FetchSettles(i, f, throws)
    \/ \E i \in 1 .. Len(attempts) : FetchNeverSettles(i)
    \/ \E i \in 1 .. Len(attempts), rejects \in BOOLEAN : AuthLoads(i, rejects)
    \/ \E i \in 1 .. Len(attempts), throws \in BOOLEAN : SocketOpens(i, throws)
    \/ \E u \in Updates(qrCount + 1), rmFails \in BOOLEAN :
          ConnectionUpdate(u, rmFails)
    \/ \E h \in pending, ok \in BOOLEAN, rmFails \in BOOLEAN : QrSettles(h, ok, rmFails)
    \/ \E c \in PairedCreds, writeFails \in BOOLEAN, fatal \in BOOLEAN :
          CredsUpdate(c, writeFails, fatal)
    \/ GetRoot
    \/ GetHealth

Spec == Init /\ [][Next]_vars

\* the progress the event loop and the settling of promises guarantee: a
\* timer that is due fires, a promise that will settle settles, a resumed
\* continuation runs. Nothing makes the environment send an event, and a
\* lookup that never answers (FetchNeverSettles) stays unanswered.
Fairness ==
    /\ WF_vars(Main)
    /\ WF_vars(\E t \in BagToSet(timers) : TimerFires(t))
    /\ WF_vars(\E i \in 1 .. Len(attempts), f \in FetchResults : FetchSettles(i, f, FALSE))
    /\ WF_vars(\E i \in 1 .. Len(attempts) : AuthLoads(i, FALSE))
    /\ WF_vars(\E i \in 1 .. Len(attempts) : SocketOpens(i, FALSE))
    /\ WF_vars(\E h \in pending : QrSettles(h, TRUE, FALSE))

FairSpec == Spec /\ Fairness

----------------------------------------------------------------------------
(* Properties *)

\* the step schedules exactly one restart, with the given delay
ScheduledOne(delay) ==
    \E w \in BOOLEAN :
        timers' = timers (+) SetToBag({ [delay |-> delay, wiped |-> w] })

\* the step ran the disconnect branches of the handler on one of the codes
Disconnected(codes) == last'.err /\ last'.code \in codes

Named == { badSession, loggedOut, restartRequired, connectionClosed }

\* C1 as stated: handling a disconnect with reason badSession or loggedOut
\* leaves the credential store deleted and schedules exactly one restart,
\* with the short delay.
C1_StoreDeletedAndShortRestart ==
    [][Disconnected({ badSession, loggedOut })
         => ~authStore'.exists /\ ScheduledOne(ShortDelay)]_vars

\* C1 amended: handling a disconnect with reason badSession or loggedOut
\* leaves the credential store absent unless the one deletion call threw, in
\* which case the store is as it was; either way exactly one restart is
\* scheduled, with the short delay and not the long one.
C1_DeleteBestEffortAndShortRestart ==
    [][Disconnected({ badSession, loggedOut })
         => /\ IF last'.rmThrew THEN authStore' = authStore ELSE ~authStore'.exists
            /\ ScheduledOne(ShortDelay)
            /\ ~ScheduledOne(LongDelay)]_vars

\* C1 witness: a badSession / loggedOut disconnect has been handled, the store
\* it found is deleted and the short restart is pending.
C1_Witness ==
    /\ last.err /\ last.code \in { badSession, loggedOut } /\ ~last.rmThrew
    /\ ~authStore.exists
    /\ BagIn([delay |-> ShortDelay, wiped |-> TRUE], timers)

\* C2: handling a disconnect with reason restartRequired or connectionClosed
\* leaves the credential store as it was and schedules exactly one restart,
\* with the short delay.
C2_StoreUntouchedAndShortRestart ==
    [][Disconnected({ restartRequired, connectionClosed })
         => authStore' = authStore /\ ScheduledOne(ShortDelay)
            /\ ~ScheduledOne(LongDelay)]_vars

\* C2 witness: a connectionClosed disconnect has been handled with a store on
\* disk, and the short restart is pending.
C2_Witness ==
    /\ last.err /\ last.code = connectionClosed
    /\ authStore.hasCreds
    /\ BagIn([delay |-> ShortDelay, wiped |-> FALSE], timers)

\* C3: handling a disconnect whose reason is none of the four named codes,
\* an absent code included, leaves the credential store as it was and
\* schedules exactly one restart, with the long delay.
C3_StoreUntouchedAndLongRestart ==
    [][last'.err /\ last'.code \notin Named
         => authStore' = authStore /\ ScheduledOne(LongDelay)
            /\ ~ScheduledOne(ShortDelay)]_vars

\* C3 witness: a disconnect whose error carries no status code has been
\* handled with a store on disk, and the long restart is pending.
C3_Witness ==
    /\ last.err /\ last.code = 0
    /\ authStore.hasCreds
    /\ BagIn([delay |-> LongDelay, wiped |-> FALSE], timers)

\* C4 as stated: once an 'open' has been handled, the pairing snapshot is
\* empty, or holds a challenge issued after that 'open' was handled.
C4_SnapshotEmptyAfterOpen ==
    hist.openSeen =>
        \/ latestQRCodeDataUrl = Null
        \/ latestQRCodeDataUrl[2] > hist.openMark

\* C5 as stated: when no handler is suspended, the snapshot is the encoding
\* of the most recent challenge issued since the last 'open' event (the case
\* that the encoding of that challenge failed left aside); before the first
\* pairing event the snapshot is empty.
C5_SnapshotIsLatestChallenge ==
    /\ qrCount = 0 => latestQRCodeDataUrl = Null
    /\ (pending = { } /\ hist.issued # 0) =>
            latestQRCodeDataUrl = DataUrl(hist.issued)

\* C6 as stated: at most one call of the start routine has a socket whose
\* handlers are registered.
C6_OneActiveAttempt == Cardinality(Subscribed) <= 1

\* C7 as stated: the socket opened by the restart that a store-deleting
\* disconnect scheduled is given fresh credentials.
C7_FreshCredsAfterWipe ==
    (last.op = "opened" /\ last.afterWipe) => last.auth = FreshCreds

\* what C8 expects of the version, given the lookup result f
ExpectedVersion(f) ==
    IF f.settled = "resolved" /\ f.truthy /\ f.isArray THEN f.version
    ELSE << 2, 2204, 13 >>

\* C8: when the lookup settles, whatever it settles with, the start routine
\* goes on (index.js to loading the credentials, part_000 to the socket) with
\* the fetched version if the result has a version array and with the
\* fallback [2, 2204, 13] otherwise; that version is the one makeWASocket is
\* given.
C8_VersionFallback ==
    [][\A i \in 1 .. Len(attempts) :
         /\ (attempts[i].pc = "fetching" /\ attempts'[i].pc \notin { "fetching", "hung" })
               => IF program = "index_js"
                  THEN /\ attempts'[i].pc = "loading"
                       /\ attempts'[i].version = ExpectedVersion(last'.fetched)
                  ELSE /\ connectionStatus' = "starting-socket"
                       /\ last'.op \in { "opened", "startFailed" }
                       /\ last'.op = "opened"
                             => last'.version = ExpectedVersion(last'.fetched)
         /\ (attempts[i].pc = "loading" /\ attempts'[i].pc = "loaded")
               => attempts'[i].version = attempts[i].version
         /\ (attempts[i].pc = "loaded" /\ attempts'[i].pc = "subscribed")
               => last'.version = attempts[i].version]_vars

\* C8 witness: a socket has been made with the fallback version by a call
\* whose lookup was rejected (part_000), or such a call has gone on to load
\* the credentials (index.js).
C8_Witness ==
    /\ last.op \in { "opened", "fetched" }
    /\ last.fetched.settled = "rejected"
    /\ \E i \in 1 .. Len(attempts) : attempts[i].pc \in { "loading", "subscribed" }

\* C9 as stated: every call of the start routine that is awaiting the version
\* lookup eventually gets past it.
C9_VersionResolutionEnds ==
    \A i \in 1 .. MaxStarts :
        (Len(attempts) >= i /\ attempts[i].pc \in { "fetching", "hung" })
            ~> (Len(attempts) >= i /\ attempts[i].pc \notin { "fetching", "hung" })

\* C10: when the outer catch of the start routine runs, the call ends there,
\* the credential store is as it was and exactly one restart is scheduled,
\* with the long delay.
C10_StartFailureRetriesLong ==
    [][last'.op = "startFailed"
         => /\ authStore' = authStore
            /\ ScheduledOne(LongDelay)
            /\ ~ScheduledOne(ShortDelay)
            /\ \E i \in 1 .. Len(attempts) :
                  attempts[i].pc # "failed" /\ attempts'[i].pc = "failed"]_vars

\* C10 witness: a call of the start routine has failed with credentials on
\* disk, and the long restart is pending.
C10_Witness ==
    /\ last.op = "startFailed"
    /\ authStore.hasCreds
    /\ BagIn([delay |-> LongDelay, wiped |-> FALSE], timers)

\* calls of the start routine that have not returned yet
InProgress ==
    { i \in 1 .. Len(attempts) : attempts[i].pc \in { "fetching", "hung", "loading", "loaded" } }

\* C11 as stated: there is no state in which the connection is reported
\* closed, no call of the start routine is in progress, no restart is pending
\* and no suspended handler is about to schedule one.
C11_NoTerminalState ==
    ~ /\ connectionStatus = "close"
      /\ InProgress = { }
      /\ timers = EmptyBag
      /\ Owed = 0

\* C12 as stated: once a disconnect with reason loggedOut has been handled,
\* the connection status eventually takes the value 'starting' again.
C12_StatusReturnsToStarting ==
    (last.err /\ last.code = loggedOut) ~> (connectionStatus = "starting")

\* the step ran a connection.update handler to its end
HandlerEnded == last'.op \in { "update", "qrStored", "qrFailed" } /\ pending' \subseteq pending

\* C13: when the deletion call throws while a badSession or loggedOut
\* disconnect is handled, the handler still runs to its end: the store is
\* left as it was and exactly one restart is scheduled, with the short delay.
C13_DeleteFailureStillRestarts ==
    [][(Disconnected({ badSession, loggedOut }) /\ last'.rmThrew)
         => /\ HandlerEnded
            /\ authStore' = authStore
            /\ BagCardinality(timers') = BagCardinality(timers) + 1
            /\ BagIn([delay |-> ShortDelay, wiped |-> FALSE], timers')
            /\ ~BagIn([delay |-> LongDelay, wiped |-> FALSE], timers' (-) timers)]_vars

\* C13 witness: the deletion call threw on a store that is on disk, the store
\* is still there, and the one pending timer is the short restart.
C13_Witness ==
    /\ last.err /\ last.code \in { badSession, loggedOut } /\ last.rmThrew
    /\ authStore.exists
    /\ timers = SetToBag({ [delay |-> ShortDelay, wiped |-> FALSE] })

C15_PersistFailureNotFatal ==
    last.op = "credsNotSaved" => mainPc = "running"

\* the values of connectionStatus that the connection.update handler assigns
EventStatuses == { "qr-generated", "open", "close" }

\* C16 as stated: whenever no handler is suspended and the status is one that
\* an event has set, it is the status of the most recently arrived event that
\* sets one (the case that the encoding of that event's challenge failed left
\* aside).
C16_StatusIsLatestEvent ==
    (pending = { } /\ connectionStatus \in EventStatuses /\ hist.expect.status # "")
        => connectionStatus = hist.expect.status

\* C17: a pairing update whose encoding succeeds leaves the snapshot holding
\* the encoding of its challenge, the timestamp set and the status
\* 'qr-generated'; and when that handler has just ended, no other is
\* suspended and the next step handles an 'open' update, the step starts from
\* that populated snapshot and status and leaves the snapshot empty, the
\* timestamp set and the status 'open'.
C17_QrThenOpen ==
    [][/\ \A h \in pending :
            (last'.op = "qrStored" /\ pending' = pending \ { h } /\ h.connection = "")
               => /\ latestQRCodeDataUrl' = DataUrl(h.qr)
                  /\ qrLastUpdated' = ISO(now)
                  /\ connectionStatus' = "qr-generated"
       /\ (/\ last.op = "qrStored" /\ last.conn = "" /\ pending = { }
           /\ last'.op = "update" /\ last'.conn = "open")
               => /\ latestQRCodeDataUrl # Null
                  /\ connectionStatus = "qr-generated"
                  /\ latestQRCodeDataUrl' = Null
                  /\ qrLastUpdated' = ISO(now')
                  /\ connectionStatus' = "open"]_vars

\* C17 witness: two events have been delivered, the one pairing challenge and
\* then an 'open' that found the snapshot populated; no handler is suspended,
\* the snapshot is empty and the status is 'open'.
C17_Witness ==
    /\ last.op = "update" /\ last.conn = "open" /\ last.cleared
    /\ now = 2 /\ qrCount = 1 /\ pending = { }
    /\ latestQRCodeDataUrl = Null
    /\ qrLastUpdated = ISO(2)
    /\ connectionStatus = "open"

\* C18 as stated: a pending restart leaves the timer queue only by firing, and
\* the step in which it fires makes exactly one call of the start routine;
\* and every pending restart eventually fires.
C18_TimersAlwaysFire ==
    /\ [][\A t \in BagToSet(timers) :
            CopiesIn(t, timers') < CopiesIn(t, timers)
               => /\ last'.op = "timer"
                  /\ BagCardinality(timers') = BagCardinality(timers) - 1
                  /\ Len(attempts') = Len(attempts) + 1
                  /\ attempts'[Len(attempts')].pc = "fetching"]_vars
    /\ \A k \in 1 .. MaxStarts :
          (BagCardinality(timers) = k) ~> (BagCardinality(timers) < k)

\* C19: serving '/' or '/health' takes one step, whatever the session manager
\* is in the middle of, and leaves the status, the snapshot, its timestamp,
\* the credential store, the pending restarts, the calls of the start routine
\* and the suspended handlers as they were; '/health' answers with the
\* current status and timestamp, '/' with the image page (current status,
\* timestamp and snapshot) exactly when the snapshot is non-empty and with the
\* waiting page (current status) otherwise.
C19_HttpReadsOnly ==
    [][last'.op \in { "getRoot", "getHealth" }
         => /\ UNCHANGED << connectionStatus, latestQRCodeDataUrl, qrLastUpdated,
                            authStore, state, timers, attempts, pending >>
            /\ last'.op = "getHealth"
                  => last'.resp = << "health", connectionStatus, qrLastUpdated >>
            /\ last'.op = "getRoot"
                  => /\ last'.resp[1] = "qr" <=> latestQRCodeDataUrl # Null
                     /\ last'.resp[1] = "waiting" <=> latestQRCodeDataUrl = Null
                     /\ last'.resp[2] = connectionStatus
                     /\ last'.resp[1] = "qr"
                           => /\ last'.resp[3] = qrLastUpdated
                              /\ last'.resp[4] = latestQRCodeDataUrl]_vars

\* C19 witness: '/' has been served with the image of the first challenge
\* while a call of the start routine had already returned its socket.
C19_Witness ==
    /\ last.op = "getRoot"
    /\ last.resp = << "qr", "qr-generated", ISO(1), DataUrl(1) >>
    /\ latestQRCodeDataUrl = DataUrl(1)

\* C20: the step in which the encoding of a challenge fails writes nothing of
\* the pairing branch: the status, the snapshot and the timestamp are changed
\* only by the `if (connection)` part of the same update (the status becomes
\* the reported state, 'open' clears the snapshot and sets the timestamp), and
\* a disconnect carried by the update is classified and schedules exactly one
\* restart with the delay of its branch; without one nothing is scheduled.
C20_EncodingFailureKeepsValues ==
    [][\A h \in pending :
         (last'.op = "qrFailed" /\ pending' = pending \ { h })
            => /\ connectionStatus' =
                     IF h.connection # "" THEN h.connection ELSE connectionStatus
               /\ latestQRCodeDataUrl' =
                     IF h.connection = "open" THEN Null ELSE latestQRCodeDataUrl
               /\ qrLastUpdated' =
                     IF h.connection = "open" THEN ISO(now) ELSE qrLastUpdated
               /\ last'.conn = h.connection
               /\ IF HasError(h)
                  THEN /\ last'.err
                       /\ last'.code = StatusCode(h.lastDisconnect)
                       /\ IF last'.code \in Named THEN ScheduledOne(ShortDelay)
                          ELSE ScheduledOne(LongDelay)
                  ELSE /\ timers' = timers
                       /\ authStore' = authStore]_vars

\* C20 witness: the encoding of the challenge of an update that also carried
\* 'close' and a badSession disconnect has failed; the snapshot and the
\* timestamp are still empty, the status is 'close' and the short restart is
\* pending.
C20_Witness ==
    /\ last.op = "qrFailed" /\ last.conn = "close"
    /\ last.err /\ last.code = badSession
    /\ latestQRCodeDataUrl = Null /\ qrLastUpdated = Null
    /\ connectionStatus = "close"
    /\ \E w \in BOOLEAN : timers = SetToBag({ [delay |-> ShortDelay, wiped |-> w] })

====
